---------------------------- MODULE Spec2Model ----------------------------
(***************************************************************************)
(* A state-machine model of PatronComponent (src/components/patron.cpp):   *)
(* data attachment, the post-load fixup, the per-frame fall / get-up state *)
(* machine and the collision handler.                                      *)
(*                                                                         *)
(* Floats (y, dy, contact heights) are fixed-point integers in thousandths *)
(* (FloatOne stands for 1.0f); products are truncated toward zero.  Radii  *)
(* and squared distances are whole numbers.                                *)
(***************************************************************************)
EXTENDS Integers, Sequences, FiniteSets, TLC

\* ------------------------------------------------------------- constants

\* 1.0f in thousandths.
FloatOne == 1000

\* static const float kHitMinHeight = 2.0;   (thousandths)
kHitMinHeight == 2000

\* static const float kSplatterCount = 10;
kSplatterCount == 10

\* static const float kGravity = 0.05f;      (thousandths per second)
kGravity == 50

\* static const float kAtRestThreshold = 0.005f;   (thousandths)
kAtRestThreshold == 5

\* static const float kBounceFactor = 0.4f;  (thousandths)
kBounceFactor == 400

\* delta_time is in milliseconds.
kMillisecondsPerSecond == 1000

kPatronStateLayingDown == "LayingDown"
kPatronStateUpright == "Upright"
kPatronStateGettingUp == "GettingUp"
kPatronStateFalling == "Falling"

PatronStates ==
  {kPatronStateLayingDown, kPatronStateUpright, kPatronStateGettingUp,
   kPatronStateFalling}

\* event_payload.id()
EventSinkUnion_Collision == "Collision"
EventSinkUnion_Other == "Other"

\* ---------------------------------------------------------------- bounds

\* The raft's lap counter ranges over 0..MaxLap.
MaxLap == 3

\* Frames that would take y further than this outside [0, 1] (thousandths)
\* are not explored.
MaxExcursion == 200

\* ------------------------------------------------------ entities, inputs

\* Entities the loader attaches a PatronDef to.
PatronEntities == {"patron"}

\* Entities the player fires: they carry PlayerProjectileData while in flight.
ProjectileEntities == {"sushi"}

\* The player's raft: the reference entity.
RaftEntities == {"raft"}

Entities == PatronEntities \cup ProjectileEntities \cup RaftEntities

\* Elapsed times of a frame, in milliseconds.  Two long frames: gravity
\* changes dy by 0.9 and by 1.6 a frame, so that a fall, a bounce or a rise
\* takes a few frames and the poses a patron can reach stay few.
DeltaTimes == {18000, 32000}

\* Squared distances between a patron and the raft: at the pop-in radius of
\* the first PatronDef below, at its pop-out radius, and beyond it.
Distances == {4, 25, 36}

\* Heights (z) of a contact point, in thousandths.
Heights == {1000, 2000, 3000}

Laps == 0..MaxLap

\* The PatronDef of the level's patrons: radii and lap bounds.
PatronDefs ==
  { [pop_in_radius |-> 2, pop_out_radius |-> 5, min_lap |-> 1, max_lap |-> 2,
     on_collision |-> "feed"] }

\* Configured radii and lap bounds a PatronDef may hold, for the checks of
\* the loader.
Radii == {-2, -1, 1, 2, 5}

LapBounds == {1, 2}

LoadDefs ==
  [pop_in_radius : Radii, pop_out_radius : Radii, min_lap : LapBounds,
   max_lap : LapBounds, on_collision : {"feed"}]

\* The contact heights of a payload: position_a.z(), position_b.z().
PayloadHeights == {<<1000, 3000>>, <<3000, 2000>>, <<2000, 1000>>}

\* The pairs of entities that collide: a patron and a projectile in either
\* order, a patron and the raft, the raft and a projectile.
EntityPairs ==
  (PatronEntities \X ProjectileEntities)
    \cup (ProjectileEntities \X PatronEntities)
    \cup (PatronEntities \X RaftEntities)
    \cup (RaftEntities \X ProjectileEntities)

\* CollisionPayloads, with the event's id: the component registers for
\* EventSinkUnion_Collision alone.  A collision with a projectile comes at
\* every pair of PayloadHeights, one with the raft at the first.
Payloads ==
  { [id |-> EventSinkUnion_Collision,
     entity_a |-> ab[1], entity_b |-> ab[2],
     position_a |-> h[1], position_b |-> h[2]] :
      <<ab, h>> \in
        { x \in EntityPairs \X PayloadHeights :
            x[1][1] \in RaftEntities \/ x[1][2] \in RaftEntities
              => x[2] = <<1000, 3000>> } }

VARIABLES
  phase,                  \* "loading", "running" or "aborted"
  patron_def,             \* entity -> the PatronDef it was attached with
  component_data,         \* entity -> PatronData, for the registered patrons
  physics_enabled,        \* patron entity -> BOOLEAN
  lap,                    \* the raft's RailDenizenData::lap
  projectile_data,        \* the entities that carry PlayerProjectileData
  marked_for_deletion,    \* the entities marked for deferred deletion
  last_call,              \* the component's most recent operation and the
                          \* calls it made to its collaborators, in order
  frame_times,            \* the elapsed times the frame loop delivers
  twin                    \* a second run of the component, given the same
                          \* inputs as the first

vars ==
  <<phase, patron_def, component_data, physics_enabled, lap,
    projectile_data, marked_for_deletion, last_call, frame_times, twin>>

\* The frame loop and the second run: no operation of the component touches
\* them.
aux == <<frame_times, twin>>

\* The second run before anything is loaded: its patrons' data, its
\* projectiles, its entities marked for deletion, and the velocities
\* SpawnSplatter last drew in the first and in the second run.
NewTwin ==
  [ component_data |-> << >>, projectile_data |-> {},
    marked_for_deletion |-> {}, velocities |-> <<0, 0>> ]

\* ------------------------------------------------------------ PatronData

\* A PatronData as AddEntity constructs it.
NewPatronData ==
  [ state |-> kPatronStateLayingDown, y |-> 0, dy |-> 0, last_lap_fed |-> -1,
    pop_in_radius_squared |-> 0, pop_out_radius_squared |-> 0,
    min_lap |-> 0, max_lap |-> 0, on_collision |-> "none" ]

\* entity->IsRegisteredForComponent(GetComponentId())
Registered == DOMAIN component_data

\* ------------------------------------------------------------ arithmetic

Abs(a) == IF a < 0 THEN -a ELSE a

\* a * b for fixed-point a and b, truncated toward zero.
FMul(a, b) ==
  LET m == (Abs(a) * Abs(b)) \div FloatOne
  IN  IF (a < 0) = (b < 0) THEN m ELSE -m

\* seconds * kGravity, where seconds = delta_time / kMillisecondsPerSecond.
GravityStep(delta_time) == (delta_time * kGravity) \div kMillisecondsPerSecond

\* ------------------------------------------------------------ calls made

\* An operation and the calls it made.
Call(op, calls) == [op |-> op, calls |-> calls]

DisablePhysics(entity) == [fn |-> "DisablePhysics", entity |-> entity]

EnablePhysics(entity) == [fn |-> "EnablePhysics", entity |-> entity]

ParseAction(action, source, target) ==
  [fn |-> "ParseAction", action |-> action, source |-> source,
   target |-> target]

CreateEntityFromData(def, position) ==
  [fn |-> "CreateEntityFromData", def |-> def, position |-> position]

DeleteEntity(entity) == [fn |-> "DeleteEntity", entity |-> entity]

Range(cs) == {cs[i] : i \in DOMAIN cs}

\* The calls among cs to the function fn.
CallsTo(cs, fn) == SelectSeq(cs, LAMBDA c : c.fn = fn)

\* ------------------------------------------------------------ Init

Init ==
  /\ phase = "loading"
  /\ patron_def = << >>
  /\ component_data = << >>
  /\ physics_enabled \in [PatronEntities -> BOOLEAN]
  /\ lap = 0
  /\ projectile_data = {}
  /\ marked_for_deletion = {}
  /\ last_call = Call("Init", << >>)
  /\ frame_times = DeltaTimes
  /\ twin = NewTwin

\* ------------------------------------------------------------ AddFromRawData

\* assert(patron_def->pop_out_radius() >= patron_def->pop_in_radius())
RadiiAssertion(def) == def.pop_out_radius >= def.pop_in_radius

\* The PatronData AddFromRawData fills in from a PatronDef.
DataFromDef(def) ==
  [ NewPatronData EXCEPT
      !.on_collision = def.on_collision,
      !.pop_in_radius_squared = def.pop_in_radius * def.pop_in_radius,
      !.pop_out_radius_squared = def.pop_out_radius * def.pop_out_radius,
      !.min_lap = def.min_lap,
      !.max_lap = def.max_lap ]

Extend(f, k, v) == [x \in (DOMAIN f) \cup {k} |-> IF x = k THEN v ELSE f[x]]

\* The builds in which a failed assert() is reached: with NDEBUG (TRUE) the
\* assertion is compiled out and execution goes on, without it the process
\* aborts.
Ndebug == BOOLEAN

AddFromRawData(entity, def) ==
  /\ phase = "loading"
  /\ entity \notin Registered
  /\ patron_def' = Extend(patron_def, entity, def)
  /\ last_call' = Call("AddFromRawData", << >>)
  /\ \E ndebug \in (IF RadiiAssertion(def) THEN {TRUE} ELSE Ndebug) :
       IF RadiiAssertion(def) \/ ndebug
         THEN /\ component_data' =
                   Extend(component_data, entity, DataFromDef(def))
              /\ phase' = phase
         ELSE \* AddEntity and on_collision are done; the assertion aborts.
              /\ component_data' =
                   Extend(component_data, entity,
                          [NewPatronData EXCEPT
                             !.on_collision = def.on_collision])
              /\ phase' = "aborted"
  /\ UNCHANGED <<physics_enabled, lap, projectile_data, marked_for_deletion>>

\* ------------------------------------------------------------ PostLoadFixup

\* The patrons in the order the fixup visits them.
RECURSIVE SeqOf(_)
SeqOf(S) ==
  IF S = {} THEN << >>
  ELSE LET x == CHOOSE x \in S : TRUE IN <<x>> \o SeqOf(S \ {x})

PostLoadFixup ==
  /\ phase = "loading"
  /\ Registered # {}
  /\ phase' = "running"
  /\ physics_enabled' =
       [p \in PatronEntities |->
          IF p \in Registered THEN FALSE ELSE physics_enabled[p]]
  /\ last_call' =
       Call("PostLoadFixup",
            [i \in 1..Cardinality(Registered) |->
               DisablePhysics(SeqOf(Registered)[i])])
  /\ UNCHANGED <<patron_def, component_data, lap, projectile_data,
                 marked_for_deletion>>

\* ------------------------------------------------------------ collaborators

\* The rail denizen component sets the raft's lap.
RaftLap(new_lap) ==
  /\ phase = "running"
  /\ new_lap # lap
  /\ lap' = new_lap
  /\ UNCHANGED <<phase, patron_def, component_data, physics_enabled,
                 projectile_data, marked_for_deletion, last_call>>

\* The player fires a projectile: the entity gets PlayerProjectileData.
PlayerFires(entity) ==
  /\ phase = "running"
  /\ entity \notin projectile_data
  /\ entity \notin marked_for_deletion
  /\ projectile_data' = projectile_data \cup {entity}
  /\ UNCHANGED <<phase, patron_def, component_data, physics_enabled,
                 lap, marked_for_deletion, last_call>>

\* The entity manager removes the entities marked for deletion.
DeleteMarkedEntities ==
  /\ phase = "running"
  /\ marked_for_deletion # {}
  /\ projectile_data' = projectile_data \ marked_for_deletion
  /\ marked_for_deletion' = {}
  /\ UNCHANGED <<phase, patron_def, component_data, physics_enabled,
                 lap, last_call>>

\* ------------------------------------------------------------ UpdateAllEntities

\* FallOutGuard with >= for >: falls out at the pop-out radius itself.
FallOutGuardAtRadius(d, dist) ==
  /\ dist >= d.pop_out_radius_squared
  /\ d.state \in {kPatronStateUpright, kPatronStateGettingUp}

FallOutGuard(d, dist) ==
  /\ dist > d.pop_out_radius_squared
  /\ d.state \in {kPatronStateUpright, kPatronStateGettingUp}

\* GetUpGuard without the test of the state.
GetUpGuardAnyState(d, dist, raft_lap) ==
  /\ dist <= d.pop_in_radius_squared
  /\ raft_lap > d.last_lap_fed
  /\ raft_lap >= d.min_lap
  /\ raft_lap <= d.max_lap

\* GetUpGuard with >= for > in the test of last_lap_fed.
GetUpGuardAtFedLap(d, dist, raft_lap) ==
  /\ dist <= d.pop_in_radius_squared
  /\ raft_lap >= d.last_lap_fed
  /\ raft_lap >= d.min_lap
  /\ raft_lap <= d.max_lap
  /\ d.state \in {kPatronStateLayingDown, kPatronStateFalling}

\* GetUpGuard without the test of last_lap_fed.
GetUpGuardFedThisLap(d, dist, raft_lap) ==
  /\ dist <= d.pop_in_radius_squared
  /\ raft_lap >= d.min_lap
  /\ raft_lap <= d.max_lap
  /\ d.state \in {kPatronStateLayingDown, kPatronStateFalling}

GetUpGuard(d, dist, raft_lap) ==
  /\ dist <= d.pop_in_radius_squared
  /\ raft_lap > d.last_lap_fed
  /\ raft_lap >= d.min_lap
  /\ raft_lap <= d.max_lap
  /\ d.state \in {kPatronStateLayingDown, kPatronStateFalling}

\* The state after the transition step.
TransitionState(d, dist, raft_lap) ==
  IF FallOutGuard(d, dist) THEN kPatronStateFalling
  ELSE IF GetUpGuard(d, dist, raft_lap) THEN kPatronStateGettingUp
  ELSE d.state

\* FallingStep with a bounce that loses no speed.
FallingStepElastic(d, delta_time) ==
  LET dy1 == d.dy - GravityStep(delta_time)
      y1 == d.y + dy1
      dy2 == -dy1
  IN  IF y1 < 0
        THEN IF dy2 < kAtRestThreshold
               THEN [d EXCEPT !.dy = 0, !.y = 0,
                              !.state = kPatronStateLayingDown]
               ELSE [d EXCEPT !.dy = dy2, !.y = 0]
        ELSE [d EXCEPT !.dy = dy1, !.y = y1]

\* FallingStep that comes to rest without zeroing dy.
FallingStepKeepsDy(d, delta_time) ==
  LET dy1 == d.dy - GravityStep(delta_time)
      y1 == d.y + dy1
      dy2 == FMul(dy1, -kBounceFactor)
  IN  IF y1 < 0
        THEN IF dy2 < kAtRestThreshold
               THEN [d EXCEPT !.dy = dy2, !.y = 0,
                              !.state = kPatronStateLayingDown]
               ELSE [d EXCEPT !.dy = dy2, !.y = 0]
        ELSE [d EXCEPT !.dy = dy1, !.y = y1]

\* The Falling branch: gravity, then the bounce on y < 0.
FallingStep(d, delta_time) ==
  LET dy1 == d.dy - GravityStep(delta_time)
      y1 == d.y + dy1
      dy2 == FMul(dy1, -kBounceFactor)
  IN  IF y1 < 0
        THEN IF dy2 < kAtRestThreshold
               THEN [d EXCEPT !.dy = 0, !.y = 0,
                              !.state = kPatronStateLayingDown]
               ELSE [d EXCEPT !.dy = dy2, !.y = 0]
        ELSE [d EXCEPT !.dy = dy1, !.y = y1]

\* GettingUpStep that forgets the feed when the patron is up again.
GettingUpStepForgetsFed(d, delta_time) ==
  LET dy1 == d.dy + GravityStep(delta_time)
      y1 == d.y + dy1
  IN  IF y1 >= FloatOne
        THEN [d EXCEPT !.y = FloatOne, !.dy = 0,
                       !.state = kPatronStateUpright, !.last_lap_fed = -1]
        ELSE [d EXCEPT !.dy = dy1, !.y = y1]

\* GettingUpStep that leaves dy as it is when the patron is up.
GettingUpStepKeepsSpeed(d, delta_time) ==
  LET dy1 == d.dy + GravityStep(delta_time)
      y1 == d.y + dy1
  IN  IF y1 >= FloatOne
        THEN [d EXCEPT !.y = FloatOne, !.dy = dy1,
                       !.state = kPatronStateUpright]
        ELSE [d EXCEPT !.dy = dy1, !.y = y1]

\* The GettingUp branch: 'falling' up, no bouncing.
GettingUpStep(d, delta_time) ==
  LET dy1 == d.dy + GravityStep(delta_time)
      y1 == d.y + dy1
  IN  IF y1 >= FloatOne
        THEN [d EXCEPT !.y = FloatOne, !.dy = 0,
                       !.state = kPatronStateUpright]
        ELSE [d EXCEPT !.dy = dy1, !.y = y1]

\* The simulation step, on the data as the transition step left it.
SimulationStep(d, delta_time) ==
  IF d.state = kPatronStateFalling THEN FallingStep(d, delta_time)
  ELSE IF d.state = kPatronStateGettingUp THEN GettingUpStep(d, delta_time)
  ELSE d

\* One patron's PatronData after a frame.
UpdateEntity(d, dist, raft_lap, delta_time) ==
  SimulationStep([d EXCEPT !.state = TransitionState(d, dist, raft_lap)],
                 delta_time)

\* UpdatePhysicsCalls without the DisablePhysics of the fall-out transition.
UpdatePhysicsCallsNoDisable(entity, d, dist, raft_lap, delta_time) ==
  LET mid == [d EXCEPT !.state = TransitionState(d, dist, raft_lap)]
  IN  IF /\ mid.state = kPatronStateGettingUp
         /\ GettingUpStep(mid, delta_time).state = kPatronStateUpright
        THEN <<EnablePhysics(entity)>>
        ELSE << >>

\* The physics calls of one patron's frame: DisablePhysics on the fall-out
\* transition, EnablePhysics when the GettingUp branch reaches Upright.
UpdatePhysicsCalls(entity, d, dist, raft_lap, delta_time) ==
  LET mid == [d EXCEPT !.state = TransitionState(d, dist, raft_lap)]
  IN  (IF FallOutGuard(d, dist) THEN <<DisablePhysics(entity)>> ELSE << >>)
      \o (IF /\ mid.state = kPatronStateGettingUp
             /\ GettingUpStep(mid, delta_time).state = kPatronStateUpright
            THEN <<EnablePhysics(entity)>>
            ELSE << >>)

\* The physics flag of entity after the calls cs, in order.
RECURSIVE PhysicsAfter(_, _, _)
PhysicsAfter(enabled, entity, cs) ==
  IF cs = << >> THEN enabled
  ELSE PhysicsAfter(
         IF Head(cs).fn = "DisablePhysics" /\ Head(cs).entity = entity
           THEN FALSE
         ELSE IF Head(cs).fn = "EnablePhysics" /\ Head(cs).entity = entity
           THEN TRUE
         ELSE enabled,
         entity, Tail(cs))

\* The calls of a frame, patron after patron.
RECURSIVE FrameCalls(_, _, _)
FrameCalls(patrons, delta_time, raft_distance_squared) ==
  IF patrons = << >> THEN << >>
  ELSE UpdatePhysicsCalls(Head(patrons), component_data[Head(patrons)],
                          raft_distance_squared[Head(patrons)], lap,
                          delta_time)
       \o FrameCalls(Tail(patrons), delta_time, raft_distance_squared)

\* A frame: delta_time has elapsed and the raft is at raft_distance_squared[p]
\* from patron p.
UpdateAllEntities(delta_time, raft_distance_squared) ==
  /\ phase = "running"
  /\ component_data' =
       [p \in Registered |->
          UpdateEntity(component_data[p], raft_distance_squared[p], lap,
                       delta_time)]
  /\ \A p \in Registered :
       /\ component_data'[p].y >= -MaxExcursion
       /\ component_data'[p].y <= FloatOne + MaxExcursion
  /\ last_call' =
       Call("UpdateAllEntities",
            FrameCalls(SeqOf(Registered), delta_time, raft_distance_squared))
  /\ physics_enabled' =
       [p \in PatronEntities |->
          PhysicsAfter(physics_enabled[p], p, last_call'.calls)]
  /\ UNCHANGED <<phase, patron_def, lap, projectile_data,
                 marked_for_deletion>>

\* ------------------------------------------------------------ HandleCollision

\* IsLiveProjectile without the test of marked_for_deletion().
IsLiveProjectileIgnoringMark(proj_entity) == proj_entity \in projectile_data

\* Not (projectile_data == nullptr || proj_entity->marked_for_deletion()).
IsLiveProjectile(proj_entity) ==
  /\ proj_entity \in projectile_data
  /\ proj_entity \notin marked_for_deletion

\* HitHighEnough with > for >=.
HitStrictlyHigher(z) == z > kHitMinHeight

\* position.z() >= kHitMinHeight
HitHighEnough(z) == z >= kHitMinHeight

\* FedPatronData that does not record the lap.
FedPatronDataNoLap(d, raft_lap) == [d EXCEPT !.state = kPatronStateFalling]

\* The patron's data once it is fed.
FedPatronData(d, raft_lap) ==
  [d EXCEPT !.state = kPatronStateFalling, !.last_lap_fed = raft_lap]

\* The calls of SpawnSplatter(position, count).
SpawnSplatter(position, count) ==
  [i \in 1..count |-> CreateEntityFromData("kSplatterParticle", position)]

\* CollisionCalls without the DisablePhysics of a fed patron.
CollisionCallsKeepsPhysics(patron_entity, proj_entity, z) ==
  LET d == component_data[patron_entity]
  IN  IF ~IsLiveProjectile(proj_entity) THEN << >>
      ELSE IF d.state # kPatronStateUpright THEN << >>
      ELSE (IF HitHighEnough(z)
              THEN <<ParseAction(d.on_collision, proj_entity, patron_entity)>>
              ELSE << >>)
           \o SpawnSplatter(proj_entity, kSplatterCount)
           \o <<DeleteEntity(proj_entity)>>

\* CollisionCalls that spawns the splatter and deletes the projectile
\* whatever the patron's state.
CollisionCallsAnyState(patron_entity, proj_entity, z) ==
  LET d == component_data[patron_entity]
  IN  IF ~IsLiveProjectile(proj_entity) THEN << >>
      ELSE (IF d.state = kPatronStateUpright /\ HitHighEnough(z)
              THEN <<ParseAction(d.on_collision, proj_entity, patron_entity),
                     DisablePhysics(patron_entity)>>
              ELSE << >>)
           \o SpawnSplatter(proj_entity, kSplatterCount)
           \o <<DeleteEntity(proj_entity)>>

\* The calls HandleCollision makes.
CollisionCalls(patron_entity, proj_entity, z) ==
  LET d == component_data[patron_entity]
  IN  IF ~IsLiveProjectile(proj_entity) THEN << >>
      ELSE IF d.state # kPatronStateUpright THEN << >>
      ELSE (IF HitHighEnough(z)
              THEN <<ParseAction(d.on_collision, proj_entity, patron_entity),
                     DisablePhysics(patron_entity)>>
              ELSE << >>)
           \o SpawnSplatter(proj_entity, kSplatterCount)
           \o <<DeleteEntity(proj_entity)>>

\* The patron's data after HandleCollision.
CollisionData(patron_entity, proj_entity, z) ==
  LET d == component_data[patron_entity]
  IN  IF /\ IsLiveProjectile(proj_entity)
         /\ d.state = kPatronStateUpright
         /\ HitHighEnough(z)
        THEN FedPatronData(d, lap)
        ELSE d

HandleCollision(patron_entity, proj_entity, z) ==
  /\ component_data' =
       [component_data EXCEPT
          ![patron_entity] = CollisionData(patron_entity, proj_entity, z)]
  /\ last_call' = Call("OnEvent", CollisionCalls(patron_entity, proj_entity, z))
  /\ physics_enabled' =
       [p \in PatronEntities |->
          PhysicsAfter(physics_enabled[p], p, last_call'.calls)]
  /\ marked_for_deletion' =
       marked_for_deletion
         \cup {e \in Entities : DeleteEntity(e) \in Range(last_call'.calls)}

\* ------------------------------------------------------------ OnEvent

\* The (patron, other entity, contact height) OnEvent dispatches with, or
\* << >> when neither entity is a patron.
Dispatch(payload) ==
  IF payload.entity_a \in Registered
    THEN <<payload.entity_a, payload.entity_b, payload.position_a>>
  ELSE IF payload.entity_b \in Registered
    THEN <<payload.entity_b, payload.entity_a, payload.position_b>>
  ELSE << >>

OnEvent(payload) ==
  /\ phase = "running"
  /\ IF payload.id = EventSinkUnion_Collision
       THEN /\ phase' = phase
            /\ IF Dispatch(payload) # << >>
                 THEN HandleCollision(Dispatch(payload)[1],
                                      Dispatch(payload)[2],
                                      Dispatch(payload)[3])
                 ELSE /\ last_call' = Call("OnEvent", << >>)
                      /\ UNCHANGED <<component_data, physics_enabled,
                                     marked_for_deletion>>
       ELSE \* default: { assert(0); }
            /\ \E ndebug \in Ndebug :
                 phase' = IF ndebug THEN phase ELSE "aborted"
            /\ last_call' = Call("OnEvent", << >>)
            /\ UNCHANGED <<component_data, physics_enabled,
                           marked_for_deletion>>
  /\ UNCHANGED <<patron_def, lap, projectile_data>>

\* ------------------------------------------------------------ specifications

\* The game: a level's patrons are loaded and fixed up, then frames and
\* collision events arrive while the raft and the projectiles change.
Next ==
  \/ /\ \E e \in PatronEntities, def \in PatronDefs : AddFromRawData(e, def)
     /\ UNCHANGED aux
  \/ PostLoadFixup /\ UNCHANGED aux
  \/ (\E l \in Laps : RaftLap(l)) /\ UNCHANGED aux
  \/ (\E e \in ProjectileEntities : PlayerFires(e)) /\ UNCHANGED aux
  \/ DeleteMarkedEntities /\ UNCHANGED aux
  \/ /\ \E dt \in frame_times, ds \in [Registered -> Distances] :
          UpdateAllEntities(dt, ds)
     /\ UNCHANGED aux
  \/ (\E pl \in Payloads : OnEvent(pl)) /\ UNCHANGED aux

Spec == Init /\ [][Next]_vars

\* The loader alone, over every PatronDef of LoadDefs.
NextLoad ==
  \/ /\ \E e \in PatronEntities, def \in LoadDefs : AddFromRawData(e, def)
     /\ UNCHANGED aux
  \/ PostLoadFixup /\ UNCHANGED aux

SpecLoad == Init /\ [][NextLoad]_vars

\* The raft crosses the start line: its lap counter goes up.
RaftAdvances == \E l \in Laps : l > lap /\ RaftLap(l)

\* The game with a lap counter that never decreases.
NextMonotone ==
  \/ /\ \E e \in PatronEntities, def \in PatronDefs : AddFromRawData(e, def)
     /\ UNCHANGED aux
  \/ PostLoadFixup /\ UNCHANGED aux
  \/ RaftAdvances /\ UNCHANGED aux
  \/ (\E e \in ProjectileEntities : PlayerFires(e)) /\ UNCHANGED aux
  \/ DeleteMarkedEntities /\ UNCHANGED aux
  \/ /\ \E dt \in frame_times, ds \in [Registered -> Distances] :
          UpdateAllEntities(dt, ds)
     /\ UNCHANGED aux
  \/ (\E pl \in Payloads : OnEvent(pl)) /\ UNCHANGED aux

SpecMonotone == Init /\ [][NextMonotone]_vars

\* Payloads of a category the component never registered for.
OtherPayloads ==
  { [id |-> EventSinkUnion_Other,
     entity_a |-> ab[1], entity_b |-> ab[2],
     position_a |-> 3000, position_b |-> 3000] :
      ab \in (PatronEntities \X ProjectileEntities)
               \cup (ProjectileEntities \X PatronEntities) }

\* The game with an event router that also delivers other categories.
NextEvents ==
  \/ (\E pl \in OtherPayloads : OnEvent(pl)) /\ UNCHANGED aux
  \/ Next

SpecEvents == Init /\ [][NextEvents]_vars

\* The level's PatronDefs and one with negative radii, which passes the
\* assertion of AddFromRawData and whose pop-in radius squared (4) is greater
\* than its pop-out radius squared (1): at a squared distance in between, the
\* distance tests of both transitions hold.
GuardDefs ==
  PatronDefs
    \cup { [pop_in_radius |-> -2, pop_out_radius |-> -1, min_lap |-> 1,
            max_lap |-> 2, on_collision |-> "feed"] }

\* The game with a level that holds any of GuardDefs.
NextGuards ==
  \/ /\ \E e \in PatronEntities, def \in GuardDefs : AddFromRawData(e, def)
     /\ UNCHANGED aux
  \/ PostLoadFixup /\ UNCHANGED aux
  \/ (\E l \in Laps : RaftLap(l)) /\ UNCHANGED aux
  \/ (\E e \in ProjectileEntities : PlayerFires(e)) /\ UNCHANGED aux
  \/ DeleteMarkedEntities /\ UNCHANGED aux
  \/ /\ \E dt \in frame_times, ds \in [Registered -> Distances] :
          UpdateAllEntities(dt, ds)
     /\ UNCHANGED aux
  \/ (\E pl \in Payloads : OnEvent(pl)) /\ UNCHANGED aux

SpecGuards == Init /\ [][NextGuards]_vars

\* ------------------------------------------------------------ two patrons
\* A level with two patrons within reach of one projectile.  physics_enabled
\* holds the flag of PatronEntities; the physics calls made for the other
\* patron are in last_call.

PairEntities == PatronEntities \cup {"patron_b"}

\* The elapsed time of the level's frames.
PairDeltaTimes == {18000}

\* A projectile meets either patron, as entity_a or entity_b, high or low.
PairPayloads ==
  { [id |-> EventSinkUnion_Collision,
     entity_a |-> p, entity_b |-> e,
     position_a |-> h, position_b |-> 1000] :
      p \in PairEntities, e \in ProjectileEntities, h \in {1000, 3000} }
    \cup
  { [id |-> EventSinkUnion_Collision,
     entity_a |-> e, entity_b |-> p,
     position_a |-> 1000, position_b |-> 3000] :
      p \in PairEntities, e \in ProjectileEntities }

InitPair ==
  /\ phase = "loading"
  /\ patron_def = << >>
  /\ component_data = << >>
  /\ physics_enabled \in [PatronEntities -> BOOLEAN]
  /\ lap = 0
  /\ projectile_data = {}
  /\ marked_for_deletion = {}
  /\ last_call = Call("Init", << >>)
  /\ frame_times = PairDeltaTimes
  /\ twin = NewTwin

NextPair ==
  \/ /\ \E e \in PairEntities, def \in PatronDefs : AddFromRawData(e, def)
     /\ UNCHANGED aux
  \/ PostLoadFixup /\ UNCHANGED aux
  \/ RaftAdvances /\ UNCHANGED aux
  \/ (\E e \in ProjectileEntities : PlayerFires(e)) /\ UNCHANGED aux
  \/ DeleteMarkedEntities /\ UNCHANGED aux
  \/ /\ \E dt \in frame_times, ds \in [Registered -> Distances] :
          UpdateAllEntities(dt, ds)
     /\ UNCHANGED aux
  \/ (\E pl \in PairPayloads : OnEvent(pl)) /\ UNCHANGED aux

SpecPair == InitPair /\ [][NextPair]_vars

\* ------------------------------------------------------------ two runs
\* A second run of the component, twin, is given the inputs of the first:
\* the same PatronDefs, elapsed times, distances, laps, projectiles and
\* collision payloads. Each run draws the velocities of its splatter
\* particles for itself.

\* Linear velocities mathfu::RandomInRange(-3.0f, 3.0f) may return, in
\* thousandths.
SplatterVelocities == {-3000, 3000}

\* SplatteredData that lets a particle's velocity into the patron's dy.
SplatteredDataByVelocity(d, velocity) == [d EXCEPT !.dy = velocity]

\* The patron's data after SpawnSplatter has given its particles the
\* velocity drawn: SpawnSplatter writes to the particles alone.
SplatteredData(d, velocity) == d

TwinRegistered == DOMAIN twin.component_data

\* IsLiveProjectile in the second run.
TwinIsLiveProjectile(proj_entity) ==
  /\ proj_entity \in twin.projectile_data
  /\ proj_entity \notin twin.marked_for_deletion

\* Dispatch in the second run.
TwinDispatch(payload) ==
  IF payload.entity_a \in TwinRegistered
    THEN <<payload.entity_a, payload.entity_b, payload.position_a>>
  ELSE IF payload.entity_b \in TwinRegistered
    THEN <<payload.entity_b, payload.entity_a, payload.position_b>>
  ELSE << >>

\* HandleCollision of the second run reaches SpawnSplatter.
TwinSplatters(patron_entity, proj_entity) ==
  /\ TwinIsLiveProjectile(proj_entity)
  /\ twin.component_data[patron_entity].state = kPatronStateUpright

\* The patron's data after HandleCollision in the second run.
TwinCollisionData(patron_entity, proj_entity, z, velocity) ==
  LET d == twin.component_data[patron_entity]
  IN  IF ~TwinSplatters(patron_entity, proj_entity) THEN d
      ELSE SplatteredData(IF HitHighEnough(z) THEN FedPatronData(d, lap)
                          ELSE d,
                          velocity)

\* OnEvent in the second run, which draws velocity for its particles.
TwinOnEvent(payload, velocity) ==
  LET hit == TwinDispatch(payload)
  IN  IF payload.id = EventSinkUnion_Collision /\ hit # << >>
        THEN [ twin EXCEPT
                 !.component_data[hit[1]] =
                    TwinCollisionData(hit[1], hit[2], hit[3], velocity),
                 !.marked_for_deletion =
                    IF TwinSplatters(hit[1], hit[2]) THEN @ \cup {hit[2]}
                    ELSE @,
                 !.velocities[2] =
                    IF TwinSplatters(hit[1], hit[2]) THEN velocity ELSE @ ]
        ELSE twin

\* OnEvent(payload) reaches SpawnSplatter in the first run.
FirstRunSplatters(payload) ==
  /\ payload.id = EventSinkUnion_Collision
  /\ Dispatch(payload) # << >>
  /\ CallsTo(CollisionCalls(Dispatch(payload)[1], Dispatch(payload)[2],
                            Dispatch(payload)[3]),
             "CreateEntityFromData") # << >>

\* OnEvent(payload) reaches SpawnSplatter in the second run.
SecondRunSplatters(payload) ==
  /\ payload.id = EventSinkUnion_Collision
  /\ TwinDispatch(payload) # << >>
  /\ TwinSplatters(TwinDispatch(payload)[1], TwinDispatch(payload)[2])

\* What a run draws in an event: RandomInRange is called in SpawnSplatter
\* alone.
Draws(splatters) == IF splatters THEN SplatterVelocities ELSE {0}

\* The velocity the first run drew, when its HandleCollision spawned a
\* splatter.
FirstRunDraws(tw, payload, velocity) ==
  IF FirstRunSplatters(payload)
    THEN [tw EXCEPT !.velocities[1] = velocity]
    ELSE tw

\* Both runs load the same PatronDef for entity.
BothAddFromRawData(entity, def) ==
  /\ AddFromRawData(entity, def)
  /\ twin' = [twin EXCEPT
                !.component_data = Extend(@, entity, DataFromDef(def))]

BothPostLoadFixup == PostLoadFixup /\ twin' = twin

BothRaftLap(new_lap) == RaftLap(new_lap) /\ twin' = twin

BothPlayerFires(entity) ==
  /\ PlayerFires(entity)
  /\ twin' = [twin EXCEPT !.projectile_data = @ \cup {entity}]

BothDeleteMarkedEntities ==
  /\ DeleteMarkedEntities
  /\ twin' = [twin EXCEPT
                !.projectile_data = @ \ twin.marked_for_deletion,
                !.marked_for_deletion = {}]

\* Both runs get the same frame.
BothUpdateAllEntities(delta_time, raft_distance_squared) ==
  /\ UpdateAllEntities(delta_time, raft_distance_squared)
  /\ twin' = [twin EXCEPT
                !.component_data =
                   [p \in TwinRegistered |->
                      UpdateEntity(twin.component_data[p],
                                   raft_distance_squared[p], lap,
                                   delta_time)]]

\* Both runs get the same payload; each draws its own velocity.
BothOnEvent(payload, velocity_first, velocity_second) ==
  /\ OnEvent(payload)
  /\ twin' = FirstRunDraws(TwinOnEvent(payload, velocity_second), payload,
                           velocity_first)

NextTwin ==
  \/ /\ \E e \in PatronEntities, def \in PatronDefs :
          BothAddFromRawData(e, def)
     /\ UNCHANGED frame_times
  \/ BothPostLoadFixup /\ UNCHANGED frame_times
  \/ (\E l \in Laps : BothRaftLap(l)) /\ UNCHANGED frame_times
  \/ (\E e \in ProjectileEntities : BothPlayerFires(e))
       /\ UNCHANGED frame_times
  \/ BothDeleteMarkedEntities /\ UNCHANGED frame_times
  \/ /\ \E dt \in frame_times, ds \in [Registered -> Distances] :
          BothUpdateAllEntities(dt, ds)
     /\ UNCHANGED frame_times
  \/ /\ \E pl \in Payloads :
          \E v1 \in Draws(FirstRunSplatters(pl)),
             v2 \in Draws(SecondRunSplatters(pl)) : BothOnEvent(pl, v1, v2)
     /\ UNCHANGED frame_times

SpecTwin == Init /\ [][NextTwin]_vars

\* The elapsed times of a fall at a constant frame rate, in milliseconds:
\* from 50 frames a second to 2 frames a second, and the long frame of
\* DeltaTimes.
FallDeltaTimes == {20, 40, 100, 200, 300, 340, 500, 18000}

\* A fed patron at the start of its fall: Falling with y = 1, dy = 0 and its
\* physics disabled, in a game that runs at one constant frame time.
InitFall ==
  /\ phase = "running"
  /\ patron_def \in [PatronEntities -> PatronDefs]
  /\ component_data =
       [p \in PatronEntities |->
          [DataFromDef(patron_def[p]) EXCEPT
             !.state = kPatronStateFalling, !.y = FloatOne, !.dy = 0]]
  /\ physics_enabled = [p \in PatronEntities |-> FALSE]
  /\ lap \in Laps
  /\ projectile_data = {}
  /\ marked_for_deletion = {}
  /\ last_call = Call("Init", << >>)
  /\ frame_times \in {{dt} : dt \in FallDeltaTimes}
  /\ twin = NewTwin

\* A frame in which no patron's get-up condition holds.
FallFrame ==
  /\ \E dt \in frame_times, ds \in [Registered -> Distances] :
       /\ \A p \in Registered : ~GetUpGuard(component_data[p], ds[p], lap)
       /\ UpdateAllEntities(dt, ds)
  /\ UNCHANGED aux

\* The fall: frame after frame at the constant frame time, for ever.
SpecFall == InitFall /\ [][FallFrame]_vars /\ WF_vars(FallFrame)

\* ------------------------------------------------------------ the rise

\* The squared distances at which the raft is within the pop-out radius of
\* the level's patrons.
RiseDistances == {4, 25}

\* UpdateAllEntities with no cap on the excursion of y: a rise ends of
\* itself, however far below 0 the speed carried over from the fall takes y.
UpdateAllEntitiesUncapped(delta_time, raft_distance_squared) ==
  /\ phase = "running"
  /\ component_data' =
       [p \in Registered |->
          UpdateEntity(component_data[p], raft_distance_squared[p], lap,
                       delta_time)]
  /\ last_call' =
       Call("UpdateAllEntities",
            FrameCalls(SeqOf(Registered), delta_time, raft_distance_squared))
  /\ physics_enabled' =
       [p \in PatronEntities |->
          PhysicsAfter(physics_enabled[p], p, last_call'.calls)]
  /\ UNCHANGED <<phase, patron_def, lap, projectile_data,
                 marked_for_deletion>>

\* A frame with the raft within the pop-out radius of every patron.
RiseFrame ==
  /\ \E dt \in frame_times, ds \in [Registered -> RiseDistances] :
       UpdateAllEntitiesUncapped(dt, ds)
  /\ UNCHANGED aux

\* A patron falls from Upright at a constant frame time and gets up whenever
\* the raft comes within its pop-in radius on a lap of its range, with the
\* speed it has at that moment; frames go on for ever.
SpecRise == InitFall /\ [][RiseFrame]_vars /\ WF_vars(RiseFrame)

\* ------------------------------------------------------------ properties

\* The patron, the other entity and the contact height of a collision that
\* OnEvent dispatches to HandleCollision.
HitPatron(pl) == Dispatch(pl)[1]
HitOther(pl) == Dispatch(pl)[2]
HitHeight(pl) == Dispatch(pl)[3]

\* The collisions OnEvent dispatches to HandleCollision in the current state.
Collisions == {pl \in Payloads : Dispatch(pl) # << >>}

\* The step is OnEvent(pl). (The test of
\* last_call' is implied by OnEvent(pl); it is made first because it is cheap.)
CollisionStep(pl) ==
  /\ last_call'.op = "OnEvent"
  /\ OnEvent(pl)

\* The step is the frame UpdateAllEntities(dt, ds). (The test of last_call'
\* is implied by the action; it is made first because it is cheap.)
FrameStep(dt, ds) ==
  /\ last_call'.op = "UpdateAllEntities"
  /\ UpdateAllEntities(dt, ds)

\* The inputs of a frame.
FrameDistances == [Registered -> Distances]

\* The patron is fed in the step: Falling, the lap recorded, the on-collision
\* action run exactly once with the projectile as source and the patron as
\* target, and physics disabled.
FedInStep(p, e) ==
  /\ component_data'[p].state = kPatronStateFalling
  /\ component_data'[p].last_lap_fed = lap
  /\ CallsTo(last_call'.calls, "ParseAction")
       = <<ParseAction(component_data[p].on_collision, e, p)>>
  /\ CallsTo(last_call'.calls, "DisablePhysics") = <<DisablePhysics(p)>>
  /\ ~physics_enabled'[p]

\* The patron is not fed in the step: its data and physics are as before and
\* neither the action nor DisablePhysics is called.
NotFedInStep(p) ==
  /\ component_data'[p] = component_data[p]
  /\ physics_enabled' = physics_enabled
  /\ CallsTo(last_call'.calls, "ParseAction") = << >>
  /\ CallsTo(last_call'.calls, "DisablePhysics") = << >>

\* The projectile's deletion is requested and exactly 10 splatter particles
\* are spawned in the step.
SplatterAndDeleteInStep(e) ==
  /\ Len(CallsTo(last_call'.calls, "CreateEntityFromData")) = 10
  /\ CallsTo(last_call'.calls, "DeleteEntity") = <<DeleteEntity(e)>>
  /\ marked_for_deletion' = marked_for_deletion \cup {e}

\* The step changes nothing the component owns or asks for.
NoOpStep ==
  /\ last_call'.calls = << >>
  /\ UNCHANGED <<component_data, physics_enabled, marked_for_deletion,
                 projectile_data, lap>>

\* C1: the height y of every patron stays within [0, 1] in every reachable
\* state (patron.cpp line 127: "Y is always guaranteed to be between 0 and 1").
C1_YWithinUnit ==
  \A p \in Registered :
    component_data[p].y >= 0 /\ component_data[p].y <= FloatOne

\* C2: a patron at rest, Upright or LayingDown, has dy = 0.
C2_RestHasZeroDy ==
  \A p \in Registered :
    component_data[p].state \in {kPatronStateUpright, kPatronStateLayingDown}
      => component_data[p].dy = 0

\* A fed patron has fallen, bounced and come to rest in a frame.
C2_Witness ==
  \E p \in Registered :
    /\ last_call.op = "UpdateAllEntities"
    /\ component_data[p].state = kPatronStateLayingDown
    /\ component_data[p].last_lap_fed >= 0
    /\ component_data[p].dy = 0

\* C3: in a frame a Falling or LayingDown patron enters GettingUp (and may
\* reach Upright in the same frame) only if the raft is within the pop-in
\* radius, the raft's lap is greater than last_lap_fed, and the lap is within
\* [min_lap, max_lap]; when all three hold it does enter.
C3_GetUpNeedsAllThree ==
  [][\A dt \in DeltaTimes, ds \in FrameDistances, p \in Registered :
       (/\ component_data[p].state
             \in {kPatronStateFalling, kPatronStateLayingDown}
        /\ FrameStep(dt, ds))
       => ((component_data'[p].state
              \in {kPatronStateGettingUp, kPatronStateUpright})
           <=> (/\ ds[p] <= component_data[p].pop_in_radius_squared
                /\ lap > component_data[p].last_lap_fed
                /\ lap >= component_data[p].min_lap
                /\ lap <= component_data[p].max_lap))]_vars

\* A patron fed on an earlier lap is getting up after a frame.
C3_Witness ==
  \E p \in Registered :
    /\ last_call.op = "UpdateAllEntities"
    /\ component_data[p].state = kPatronStateGettingUp
    /\ component_data[p].last_lap_fed >= 0
    /\ lap > component_data[p].last_lap_fed
    /\ lap <= component_data[p].max_lap

\* C4 as stated: an Upright patron becomes Falling only in a collision event
\* handled by HandleCollision, never in a frame.
C4_OnlyCollisionFells ==
  [][\A p \in Registered :
       (/\ component_data[p].state = kPatronStateUpright
        /\ component_data'[p].state = kPatronStateFalling)
       => \E pl \in Collisions : HitPatron(pl) = p /\ CollisionStep(pl)]_vars

\* C4: an Upright patron leaves Upright only for Falling, and only in a
\* collision event or in a frame; every collision that does it is one with a
\* live projectile at a contact height of at least kHitMinHeight, and every
\* frame that does it is one in which the raft's squared distance is strictly
\* greater than pop_out_radius_squared.
C4_CollisionOrFallOut ==
  [][\A p \in Registered :
       (/\ component_data[p].state = kPatronStateUpright
        /\ component_data'[p].state # kPatronStateUpright)
       => /\ component_data'[p].state = kPatronStateFalling
          /\ \/ \E pl \in Collisions : HitPatron(pl) = p /\ CollisionStep(pl)
             \/ \E dt \in DeltaTimes, ds \in FrameDistances : FrameStep(dt, ds)
          /\ \A pl \in Collisions :
               (HitPatron(pl) = p /\ CollisionStep(pl))
                 => /\ HitOther(pl) \in projectile_data \ marked_for_deletion
                    /\ HitHeight(pl) >= kHitMinHeight
          /\ \A dt \in DeltaTimes, ds \in FrameDistances :
               FrameStep(dt, ds)
                 => ds[p] > component_data[p].pop_out_radius_squared]_vars

\* A patron that was never fed is Falling after a frame that disabled its
\* physics, one gravity step below its full height.
C4_Witness ==
  \E p \in Registered :
    /\ last_call = Call("UpdateAllEntities", <<DisablePhysics(p)>>)
    /\ component_data[p].state = kPatronStateFalling
    /\ component_data[p].last_lap_fed = -1
    /\ component_data[p].dy < 0
    /\ component_data[p].y = FloatOne + component_data[p].dy

\* C5: in a frame an Upright or GettingUp patron whose squared distance to
\* the raft is strictly greater than pop_out_radius_squared falls (Falling
\* after the transition step, so Falling or at rest after the frame) and has
\* DisablePhysics called on it; at a distance up to and including
\* pop_out_radius_squared it does not fall out.
C5_FallOutBeyondRadius ==
  [][\A dt \in DeltaTimes, ds \in FrameDistances, p \in Registered :
       (/\ component_data[p].state
             \in {kPatronStateUpright, kPatronStateGettingUp}
        /\ FrameStep(dt, ds))
       => IF ds[p] > component_data[p].pop_out_radius_squared
            THEN /\ component_data'[p].state
                      \in {kPatronStateFalling, kPatronStateLayingDown}
                 /\ DisablePhysics(p) \in Range(last_call'.calls)
                 /\ ~physics_enabled'[p]
            ELSE /\ component_data'[p].state
                      \in {kPatronStateUpright, kPatronStateGettingUp}
                 /\ DisablePhysics(p) \notin Range(last_call'.calls)]_vars

\* A patron that was rising is Falling, still moving up, after a frame that
\* disabled its physics.
C5_Witness ==
  \E p \in Registered :
    /\ last_call = Call("UpdateAllEntities", <<DisablePhysics(p)>>)
    /\ component_data[p].state = kPatronStateFalling
    /\ component_data[p].dy > 0
    /\ ~physics_enabled[p]

\* C6: a collision of an Upright patron with a live projectile at a contact
\* height above kHitMinHeight feeds the patron: state Falling, last_lap_fed
\* the raft's lap, the on-collision action run exactly once with the
\* projectile as source and the patron as target, physics disabled, the
\* projectile's deletion requested and exactly 10 splatter particles spawned.
C6_HighHitFeeds ==
  [][\A pl \in Collisions :
       (/\ component_data[HitPatron(pl)].state = kPatronStateUpright
        /\ HitOther(pl) \in projectile_data \ marked_for_deletion
        /\ HitHeight(pl) > kHitMinHeight
        /\ CollisionStep(pl))
       => /\ FedInStep(HitPatron(pl), HitOther(pl))
          /\ SplatterAndDeleteInStep(HitOther(pl))]_vars

\* A patron has just been fed, on a lap after its first serviceable one.
C6_Witness ==
  \E p \in Registered, e \in ProjectileEntities :
    /\ last_call.op = "OnEvent"
    /\ ParseAction(component_data[p].on_collision, e, p)
         \in Range(last_call.calls)
    /\ component_data[p].state = kPatronStateFalling
    /\ component_data[p].last_lap_fed = lap
    /\ lap > component_data[p].min_lap
    /\ e \in marked_for_deletion

\* C7 as stated: a collision of an Upright patron with a live projectile at
\* a contact height not above kHitMinHeight, the height itself included,
\* does not feed the patron, yet spawns 10 splatter particles and requests
\* the projectile's deletion.
C7_NotAboveIsNotFed ==
  [][\A pl \in Collisions :
       (/\ component_data[HitPatron(pl)].state = kPatronStateUpright
        /\ HitOther(pl) \in projectile_data \ marked_for_deletion
        /\ HitHeight(pl) <= kHitMinHeight
        /\ CollisionStep(pl))
       => /\ NotFedInStep(HitPatron(pl))
          /\ SplatterAndDeleteInStep(HitOther(pl))]_vars

\* C7: a collision of an Upright patron with a live projectile at a contact
\* height strictly below kHitMinHeight does not feed the patron, yet spawns
\* 10 splatter particles and requests the projectile's deletion; at a height
\* equal to kHitMinHeight the patron is fed.
C7_BelowIsNotFed ==
  [][\A pl \in Collisions :
       (/\ component_data[HitPatron(pl)].state = kPatronStateUpright
        /\ HitOther(pl) \in projectile_data \ marked_for_deletion
        /\ CollisionStep(pl))
       => /\ SplatterAndDeleteInStep(HitOther(pl))
          /\ HitHeight(pl) < kHitMinHeight => NotFedInStep(HitPatron(pl))
          /\ HitHeight(pl) = kHitMinHeight
               => FedInStep(HitPatron(pl), HitOther(pl))]_vars

\* An Upright patron has just been hit too low: it is still Upright with its
\* physics enabled, and the projectile is marked after 10 particles.
C7_Witness ==
  \E p \in Registered, e \in ProjectileEntities :
    /\ last_call =
         Call("OnEvent",
              SpawnSplatter(e, kSplatterCount) \o <<DeleteEntity(e)>>)
    /\ component_data[p].state = kPatronStateUpright
    /\ physics_enabled[p]
    /\ e \in marked_for_deletion

\* C8: a collision of a patron that is not Upright changes nothing: no feed,
\* no splatter, no deletion, no data or physics change.
C8_NotUprightIgnores ==
  [][\A pl \in Collisions :
       (/\ component_data[HitPatron(pl)].state # kPatronStateUpright
        /\ CollisionStep(pl))
       => NoOpStep]_vars

\* A collision with a live projectile has just been ignored by a patron that
\* is not Upright.
C8_Witness ==
  \E p \in Registered, e \in ProjectileEntities :
    /\ last_call = Call("OnEvent", << >>)
    /\ component_data[p].state # kPatronStateUpright
    /\ e \in projectile_data \ marked_for_deletion

\* C9: a collision with an entity that has no projectile data, or that is
\* already marked for deletion, changes nothing.
C9_NotLiveIgnores ==
  [][\A pl \in Collisions :
       (/\ \/ HitOther(pl) \notin projectile_data
           \/ HitOther(pl) \in marked_for_deletion
        /\ CollisionStep(pl))
       => NoOpStep]_vars

\* A collision has just been ignored by an Upright patron while the
\* projectile is marked for deletion.
C9_Witness ==
  \E p \in Registered, e \in ProjectileEntities :
    /\ last_call = Call("OnEvent", << >>)
    /\ component_data[p].state = kPatronStateUpright
    /\ e \in projectile_data
    /\ e \in marked_for_deletion

\* C10: loading a PatronDef whose pop_out_radius is less than its
\* pop_in_radius fails the load: the process is aborted and no patron with
\* those radii goes on to be fixed up and run.
C10_BadRadiiFailLoad ==
  \A e \in Registered :
    patron_def[e].pop_out_radius < patron_def[e].pop_in_radius
      => phase = "aborted"

\* C11: every PatronData attached from a PatronDef that passes the load
\* check (pop_out_radius >= pop_in_radius) has
\* pop_out_radius_squared >= pop_in_radius_squared, negative radii included.
C11_SquaredRadiiOrdered ==
  \A e \in Registered :
    RadiiAssertion(patron_def[e])
      => component_data[e].pop_out_radius_squared
           >= component_data[e].pop_in_radius_squared

\* C12: every attached PatronData has min_lap <= max_lap; a PatronDef with
\* min_lap > max_lap is not attached.
C12_LapBoundsValidated ==
  \A e \in Registered :
    component_data[e].min_lap <= component_data[e].max_lap

\* Every patron is LayingDown with y = 0 and dy = 0.
AtRest ==
  \A p \in Registered :
    /\ component_data[p].state = kPatronStateLayingDown
    /\ component_data[p].y = 0
    /\ component_data[p].dy = 0

\* The frame time is small: the speed kBounceFactor * g / (1 + kBounceFactor)
\* that a bounce of less than one frame settles at, with g the gravity step
\* seconds * kGravity, is below kAtRestThreshold (g < 0.0175, under 350 ms).
SmallTimeStep ==
  \A dt \in frame_times :
    /\ GravityStep(dt) > 0
    /\ kBounceFactor * GravityStep(dt)
         < kAtRestThreshold * (FloatOne + kBounceFactor)

\* C13 as stated: from Falling with y = 1, dy = 0, frames at any constant
\* positive time step in which the patron may not get up bring it to
\* LayingDown with y = 0, dy = 0, where it stays.
C13_FallEnds == <>[]AtRest

\* C13: from Falling with y = 1, dy = 0, frames at a constant small time step
\* (seconds * kGravity < 0.0175) in which the patron may not get up bring it
\* to LayingDown with y = 0, dy = 0, where it stays.
C13_SmallStepFallEnds == SmallTimeStep => <>[]AtRest

\* The patron has come to rest in a game with a small frame time.
C13_Witness ==
  /\ SmallTimeStep
  /\ AtRest
  /\ last_call = Call("UpdateAllEntities", << >>)

\* C14: no step changes a patron's min_lap, max_lap or squared radii, and
\* last_lap_fed changes only in a collision that feeds the patron (Upright,
\* live projectile, contact height at least kHitMinHeight), which sets it to
\* the raft's lap.
C14_OnlyFeedRecordsLap ==
  [][\A p \in Registered :
       /\ component_data'[p].min_lap = component_data[p].min_lap
       /\ component_data'[p].max_lap = component_data[p].max_lap
       /\ component_data'[p].pop_in_radius_squared
            = component_data[p].pop_in_radius_squared
       /\ component_data'[p].pop_out_radius_squared
            = component_data[p].pop_out_radius_squared
       /\ component_data'[p].last_lap_fed # component_data[p].last_lap_fed
            => /\ component_data'[p].last_lap_fed = lap
               /\ \E pl \in Collisions : HitPatron(pl) = p /\ CollisionStep(pl)
               /\ \A pl \in Collisions :
                    (HitPatron(pl) = p /\ CollisionStep(pl))
                      => /\ component_data[p].state = kPatronStateUpright
                         /\ HitOther(pl)
                              \in projectile_data \ marked_for_deletion
                         /\ HitHeight(pl) >= kHitMinHeight]_vars

\* A patron has just been fed on its last lap: it is still at its full
\* height, with the lap recorded.
C14_Witness ==
  \E p \in Registered :
    /\ last_call.op = "OnEvent"
    /\ CallsTo(last_call.calls, "ParseAction") # << >>
    /\ component_data[p].last_lap_fed = component_data[p].max_lap
    /\ lap = component_data[p].max_lap
    /\ component_data[p].y = FloatOne

\* C15: with a lap counter that never decreases, a patron fed at lap L is
\* Falling or LayingDown for as long as the raft's lap is at most L, and every
\* collision that feeds a patron comes on a lap greater than the one it was
\* last fed on and records that lap: a patron is fed at most once a lap.
C15_OncePerLap ==
  [][\A p \in Registered :
       /\ lap' <= component_data'[p].last_lap_fed
            => component_data'[p].state
                 \in {kPatronStateFalling, kPatronStateLayingDown}
       /\ \A pl \in Collisions :
            (/\ HitPatron(pl) = p
             /\ component_data[p].state = kPatronStateUpright
             /\ HitOther(pl) \in projectile_data \ marked_for_deletion
             /\ HitHeight(pl) >= kHitMinHeight
             /\ CollisionStep(pl))
            => /\ lap > component_data[p].last_lap_fed
               /\ component_data'[p].last_lap_fed = lap]_vars

\* A patron fed on this lap, which is within its lap range, is still falling
\* after a frame on the same lap.
C15_Witness ==
  \E p \in Registered :
    /\ last_call.op = "UpdateAllEntities"
    /\ component_data[p].state = kPatronStateFalling
    /\ component_data[p].last_lap_fed = lap
    /\ lap >= component_data[p].min_lap
    /\ lap <= component_data[p].max_lap

\* C16: every feed records a lap within the patron's range:
\* min_lap <= last_lap_fed <= max_lap once the patron has been fed.
C16_FedWithinLapRange ==
  \A p \in Registered :
    component_data[p].last_lap_fed # NewPatronData.last_lap_fed
      => /\ component_data[p].min_lap <= component_data[p].last_lap_fed
         /\ component_data[p].last_lap_fed <= component_data[p].max_lap

CollisionDispatchesOnce ==
  [][\A pl \in Payloads :
       CollisionStep(pl)
         => /\ phase' = "running"
            /\ Len(CallsTo(last_call'.calls, "ParseAction")) <= 1
            /\ Dispatch(pl) = << >>
                 => /\ last_call'.calls = << >>
                    /\ component_data' = component_data]_vars

\* C18: OnEvent with a payload of a category other than collision ends in
\* the fatal assertion and changes no patron's data.
C18_OtherCategoryIsFatal ==
  [][\A pl \in OtherPayloads :
       (last_call'.op = "OnEvent" /\ OnEvent(pl))
         => /\ phase' = "aborted"
            /\ component_data' = component_data]_vars

\* The data of a reachable patron, in state st.
InState(p, st) == [component_data[p] EXCEPT !.state = st]

\* C19: for every reachable patron's data and every combination of state,
\* distance and lap, the fall-out condition and the get-up condition are
\* never both true; and a patron for which the fall-out transition fired in a
\* frame (DisablePhysics was called for it) has not entered GettingUp or
\* Upright in that frame.
C19_GuardsExclusive ==
  /\ [](\A p \in Registered, st \in PatronStates, dist \in Distances,
          l \in Laps :
          ~(/\ FallOutGuard(InState(p, st), dist)
            /\ GetUpGuard(InState(p, st), dist, l)))
  /\ [][\A p \in Registered :
          (/\ last_call'.op = "UpdateAllEntities"
           /\ DisablePhysics(p) \in Range(last_call'.calls))
            => component_data'[p].state
                 \in {kPatronStateFalling, kPatronStateLayingDown}]_vars

\* A patron whose pop-in radius squared is greater than its pop-out radius
\* squared, on a lap on which it may get up, has fallen out in a frame.
C19_Witness ==
  \E p \in Registered :
    /\ component_data[p].pop_in_radius_squared
         > component_data[p].pop_out_radius_squared
    /\ last_call.op = "UpdateAllEntities"
    /\ DisablePhysics(p) \in Range(last_call.calls)
    /\ component_data[p].state = kPatronStateFalling
    /\ lap > component_data[p].last_lap_fed
    /\ lap >= component_data[p].min_lap
    /\ lap <= component_data[p].max_lap
    /\ \E dist \in Distances :
         /\ dist > component_data[p].pop_out_radius_squared
         /\ dist <= component_data[p].pop_in_radius_squared

\* C20: once PostLoadFixup has run, a patron whose physics simulation is
\* enabled is Upright; physics is enabled only in a frame that brings the
\* patron to Upright, and a patron that leaves Upright or GettingUp for
\* Falling has its physics disabled in that step.
C20_PhysicsOnlyUpright ==
  /\ [](phase = "running"
          => \A p \in Registered :
               physics_enabled[p]
                 => component_data[p].state = kPatronStateUpright)
  /\ [][phase = "running"
          => \A p \in Registered :
               /\ (~physics_enabled[p] /\ physics_enabled'[p])
                    => /\ last_call'.op = "UpdateAllEntities"
                       /\ component_data[p].state # kPatronStateUpright
                       /\ component_data'[p].state = kPatronStateUpright
               /\ (/\ component_data[p].state
                        \in {kPatronStateUpright, kPatronStateGettingUp}
                   /\ component_data'[p].state = kPatronStateFalling)
                    => ~physics_enabled'[p]]_vars

\* A patron has reached Upright in a frame that enabled its physics, after
\* having been fed on an earlier lap.
C20_Witness ==
  \E p \in Registered :
    /\ last_call.op = "UpdateAllEntities"
    /\ EnablePhysics(p) \in Range(last_call.calls)
    /\ physics_enabled[p]
    /\ component_data[p].state = kPatronStateUpright
    /\ component_data[p].last_lap_fed >= 0

\* The collision payloads of the two-patron level that OnEvent dispatches.
PairCollisions == {pl \in PairPayloads : Dispatch(pl) # << >>}

\* C21: a collision event naming a projectile already marked for deletion
\* is ignored, whichever patron it names: no call, no patron changed.  An
\* event that gets a response makes one deletion request, for a projectile
\* not marked before and marked after, spawns one burst of kSplatterCount
\* particles, calls the action parser at most once and changes at most one
\* patron.  A marked projectile stays marked until the entity manager removes
\* it, so one projectile gets at most one response.
C21_OneResponsePerProjectile ==
  [][/\ \A e \in marked_for_deletion :
          \/ e \in marked_for_deletion'
          \/ e \notin projectile_data'
     /\ \A pl \in PairCollisions :
          CollisionStep(pl)
            => /\ HitOther(pl) \in marked_for_deletion => NoOpStep
               /\ last_call'.calls # << >>
                    => /\ HitOther(pl) \notin marked_for_deletion
                       /\ marked_for_deletion'
                            = marked_for_deletion \cup {HitOther(pl)}
                       /\ CallsTo(last_call'.calls, "DeleteEntity")
                            = <<DeleteEntity(HitOther(pl))>>
                       /\ Len(CallsTo(last_call'.calls,
                                      "CreateEntityFromData"))
                            = kSplatterCount
                       /\ Len(CallsTo(last_call'.calls, "ParseAction")) <= 1
               /\ \A p \in Registered :
                    component_data'[p] # component_data[p]
                      => p = HitPatron(pl)]_vars

\* The projectile has fed one patron and is marked for deletion, the other
\* patron is Upright, and a later event naming the projectile got no
\* response.
C21_Witness ==
  /\ last_call = Call("OnEvent", << >>)
  /\ marked_for_deletion \cap projectile_data # {}
  /\ \E p, q \in Registered :
       /\ p # q
       /\ component_data[p].state = kPatronStateFalling
       /\ component_data[p].last_lap_fed = lap
       /\ component_data[p].y = FloatOne
       /\ component_data[q].state = kPatronStateUpright

\* The patron is up: Upright with y = 1, dy = 0 and its physics enabled.
IsUp(p) ==
  /\ component_data[p].state = kPatronStateUpright
  /\ component_data[p].y = FloatOne
  /\ component_data[p].dy = 0
  /\ physics_enabled[p]

\* C22: a patron in GettingUp, with frames of a positive elapsed time in
\* which the raft stays within the pop-out radius, eventually is Upright with
\* y = 1, dy = 0 and physics enabled, whatever dy it had when it entered
\* GettingUp.
C22_GettingUpEnds ==
  \A p \in PatronEntities :
    (p \in Registered /\ component_data[p].state = kPatronStateGettingUp)
      ~> IsUp(p)

\* A patron that entered GettingUp while falling is still moving down, below
\* y = 0, after a frame.
C22_Witness ==
  \E p \in Registered :
    /\ last_call.op = "UpdateAllEntities"
    /\ component_data[p].state = kPatronStateGettingUp
    /\ component_data[p].dy < 0
    /\ component_data[p].y < 0

=============================================================================
